---- MODULE Spec2Model ----
(***************************************************************************)
(* Eathy-Ops: the content publishing pipeline (pipeline.py), the history   *)
(* based deduplication of the collector (collect/aggregator.py) and the    *)
(* MCP session protocol of the publisher (publish/xhs.py), the scheduler   *)
(* loop (scheduler.py) and the truncation of the generated copy            *)
(* (copywrite/minimax.py).                                                 *)
(***************************************************************************)
EXTENDS Integers, Sequences, FiniteSets, TLC

\* ---------------------------------------------------------------- bounds
MaxRuns == 2          \* pipeline runs that share the history file
MaxOffer == 2         \* entries one source offers in one collection pass
MaxCandidates == 2    \* filter.max_candidates of the configuration
NumberOfImages == 2   \* imagen.number_of_images of the configuration
MaxTimes == 3         \* entries of schedule.times
MaxJitter == 2        \* schedule.jitter_minutes
MaxSchedRuns == 2     \* runs the scheduler loop starts
MaxRunMinutes == 1    \* minutes one pipeline run takes
MaxTitleLen == 3      \* characters of the title the provider answers
MaxBodyLen == 2       \* characters of the body the provider answers
MaxTags == 2          \* hashtags the provider answers
MaxLimit == 2         \* title_max_length, body_max_length, hashtag_count

\* ------------------------------------------------------------ value sets
Urls == {"u1", "u2", "u3"}
Tokens == {"s1", "s2"}

\* ArticleSource of models.py
RSS == "rss"
NEWS_API == "news_api"

\* PublishStatus of models.py
PENDING == "pending"
PUBLISHED == "published"
FAILED == "failed"
DRY_RUN == "dry_run"

\* the file names _save_run_output writes, in the order it writes them
ArtifactFiles == <<"filter_result.json", "copywrite.json", "publish_result.json">>

\* error_message of the PublishResult returned when check_login is false
LoginRequiredMsg == "xhs not logged in, run xiaohongshu-mcp and log in first"

\* hashlib.md5(url).hexdigest()[:12] on the urls of the model
make_article_id(url) ==
    CASE url = "u1" -> "5f0c2a9be1d4"
      [] url = "u2" -> "9a41d07c3b62"
      [] url = "u3" -> "c27e88f01a95"

\* publication time the upstream reports for each url (u2 and u3 tie)
published_at_of(url) ==
    CASE url = "u1" -> 3
      [] url = "u2" -> 2
      [] url = "u3" -> 2

\* variant: the NewsAPI collector takes the url itself as the id
Article_news_id_is_url(url, source) ==
    [id |-> IF source = "news_api" THEN url ELSE make_article_id(url),
     url |-> url, source |-> source, published_at |-> published_at_of(url)]

Article(url, source) ==
    [id |-> make_article_id(url), url |-> url, source |-> source,
     published_at |-> published_at_of(url)]

\* --------------------------------------------------------- list helpers
RECURSIVE SeqsUpTo(_, _)
SeqsUpTo(S, n) ==
    IF n = 0 THEN {<<>>}
    ELSE LET shorter == SeqsUpTo(S, n - 1)
         IN shorter \cup {Append(s, x) : s \in {t \in shorter : Len(t) = n - 1}, x \in S}

Range(s) == {s[i] : i \in 1..Len(s)}

Take(s, n) == IF Len(s) <= n THEN s ELSE SubSeq(s, 1, n)

\* list.sort(key=published_at, reverse=True): stable, newest first
RECURSIVE InsertDesc(_, _)
InsertDesc(sorted, a) ==
    IF sorted = <<>> THEN <<a>>
    ELSE IF Head(sorted).published_at >= a.published_at
         THEN <<Head(sorted)>> \o InsertDesc(Tail(sorted), a)
         ELSE <<a>> \o sorted

RECURSIVE SortDesc(_)
SortDesc(s) ==
    IF s = <<>> THEN <<>>
    ELSE InsertDesc(SortDesc(SubSeq(s, 1, Len(s) - 1)), s[Len(s)])

\* ------------------------------------------------------- history store
\* the history file: absent, unparseable text, or a JSON array of entries
AbsentFile == [kind |-> "absent", entries |-> <<>>]
MalformedFile == [kind |-> "malformed", entries |-> <<>>]
ValidFile(entries) == [kind |-> "valid", entries |-> entries]

HistoryEntry(article_id, rid) == [article_id |-> article_id, run_id |-> rid]

load_published_ids(file) ==
    IF file.kind = "absent" THEN {}
    ELSE IF file.kind = "malformed" THEN {}
    ELSE {file.entries[i].article_id : i \in 1..Len(file.entries)}

\* variant: the entry is written twice
save_history_twice(file, article_id, rid) ==
    LET history == IF file.kind = "valid" THEN file.entries ELSE <<>>
    IN ValidFile(history \o <<HistoryEntry(article_id, rid), HistoryEntry(article_id, rid)>>)

save_history(file, article_id, rid) ==
    LET history == IF file.kind = "valid" THEN file.entries ELSE <<>>
    IN ValidFile(Append(history, HistoryEntry(article_id, rid)))

\* ------------------------------------------------------------ collect
RECURSIVE DedupBy(_, _, _)
\* keep the first occurrence of every key; Key is "id" or "url"
DedupBy(s, seen, Key) ==
    IF s = <<>> THEN <<>>
    ELSE LET k == IF Key = "id" THEN Head(s).id ELSE Head(s).url
         IN IF k \in seen THEN DedupBy(Tail(s), seen, Key)
            ELSE <<Head(s)>> \o DedupBy(Tail(s), seen \cup {k}, Key)

ToArticles(raw, source) == [i \in 1..Len(raw) |-> Article(raw[i], source)]

fetch_rss_articles(raw) == SortDesc(ToArticles(raw, RSS))

fetch_news_articles(raw) == SortDesc(DedupBy(ToArticles(raw, NEWS_API), {}, "url"))

\* variant: the history filter keeps every article
FilterPublished_keep_all(all_articles, published_ids) == all_articles

FilterPublished(all_articles, published_ids) ==
    SelectSeq(all_articles, LAMBDA a : a.id \notin published_ids)

\* variant: the list is cut to max_candidates before the published are dropped
collect_all_truncating_first(rss, news, file, max_candidates) ==
    LET merged == DedupBy(rss \o news, {}, "id")
    IN FilterPublished(Take(SortDesc(merged), max_candidates),
                       load_published_ids(file))

collect_all(rss, news, file, max_candidates) ==
    LET merged == DedupBy(rss \o news, {}, "id")
        unpublished == FilterPublished(merged, load_published_ids(file))
    IN Take(SortDesc(unpublished), max_candidates)

\* ----------------------------------------------------- status texts
\* texts are sequences of characters; yi3/wei4/deng1/lu4 stand for the
\* CJK characters of the status messages
Lower(c) ==
    CASE c = "L" -> "l"
      [] c = "N" -> "n"
      [] OTHER -> c

LowerText(text) == [i \in 1..Len(text) |-> Lower(text[i])]

Contains(needle, text) ==
    \E i \in 0..(Len(text) - Len(needle)) :
        \A j \in 1..Len(needle) : text[i + j] = needle[j]

NeedleZh == <<"yi3", "deng1", "lu4">>
NeedleEn == <<"l", "o", "g", "g", "e", "d", " ", "i", "n">>

TextLoggedInZh == <<"yi3", "deng1", "lu4">>
TextNotLoggedInZh == <<"wei4", "deng1", "lu4">>
TextLoggedInEn == <<"L", "o", "g", "g", "e", "d", " ", "i", "n">>
TextNotLoggedInEn == <<"N", "o", "t", " ", "l", "o", "g", "g", "e", "d", " ", "i", "n">>

\* what the target answers to check_login_status
LoggedInTexts == {TextLoggedInZh, TextLoggedInEn}
NotLoggedInTexts == {TextNotLoggedInZh, TextNotLoggedInEn}
StatusTexts == LoggedInTexts \cup NotLoggedInTexts

\* what the target answers to publish_content
NoteTexts == {<<"n", "7">>, <<" ", "n", "7">>}

RECURSIVE LStrip(_)
LStrip(text) == IF text # <<>> /\ Head(text) = " " THEN LStrip(Tail(text)) ELSE text

RECURSIVE RStrip(_)
RStrip(text) ==
    IF text # <<>> /\ text[Len(text)] = " "
    THEN RStrip(SubSeq(text, 1, Len(text) - 1)) ELSE text

Strip(text) == RStrip(LStrip(text))

\* "已登录" in text or "logged in" in text.lower()
text_indicates_login(text) ==
    Contains(NeedleZh, text) \/ Contains(NeedleEn, LowerText(text))

\* ------------------------------------------------------------- state
VARIABLES
    history_file,     \* output.history_file on disk
    published,        \* the Published outcomes so far: <<[article_id, run_id]>>
    run_count,        \* pipeline runs started so far; the current one is run_id
    pc,               \* position of the current run
    raised_in,        \* the stage whose exception ended the run, or ""
    dry_run,          \* Pipeline.run(dry_run=...)
    cfg_dry_run,      \* publish.dry_run of the configuration
    skip_images,      \* Pipeline.run(skip_images=...)
    images_host_dir,  \* TRUE iff publish.images_host_dir is set
    rss_articles,     \* output of fetch_rss_articles in collect_all
    news_articles,    \* output of fetch_news_articles in collect_all
    articles,         \* candidates returned by collect_all
    selected_article, \* filter_result.selected_article.id, or ""
    images,           \* number of generated images
    generator_calls,  \* generation calls the image generator of this run made
    copywrite,        \* copywrite.source_article_id, or ""
    copied,           \* assets copied into images_host_dir by publish
    call_no,          \* logical calls (_call_mcp_tool) started in this run
    tool_name,        \* tool of the logical call in progress
    session_id,       \* session_id local of the logical call in progress
    requests,         \* HTTP requests sent to the MCP endpoint in this run
    init_headers,     \* per logical call, the session header its initialize got
    status_report,    \* the status text the target gave to check_login
    login_result,     \* return value of check_login: "none", "true", "false"
    publish_result,   \* the PublishResult returned by publish
    result_error,     \* "error" member of the answer to the tools/call, or <<>>
    out_dir,          \* files written into output/<run_id> by this run
    out_status,       \* status recorded in publish_result.json, or ""
    output_dir,       \* run_id naming the directory the artifacts went to, 0 if none
    result_run_id,    \* run_id of the PipelineResult this run has built, 0 if none
    sched_pc,         \* position of run_scheduler, "off" when it is not running
    now,              \* the clock, local minutes since midnight of day 0
    schedule_times,   \* schedule_times of run_scheduler, minutes of the day
    jitter_minutes,   \* jitter_minutes of run_scheduler
    base,             \* base of the latest _next_run call
    next_time,        \* next_time of the loop
    sched_run_count,  \* run_count of run_scheduler
    run_phase,        \* where the awaited pipeline run is, "none" without one
    last_outcome,     \* how the latest awaited run ended: "", "returned", "raised"
    started,          \* base slots of the runs started, in order
    copy_pc,          \* position of CopywriteGenerator.generate, "off" when not called
    data,             \* data of generate: the parsed answer of the provider
    profile,          \* the limits of the account profile generate was given
    copy_result,      \* title, body and hashtags of the XhsCopywrite returned
    unit_pc,          \* position of a function looked at on its own, "off" if none
    unit_args,        \* the arguments and the answers of its environment
    unit_result       \* what it has computed so far, or returned

pipelineVars == <<history_file, published, run_count, pc, raised_in, dry_run, cfg_dry_run,
          skip_images, images_host_dir, rss_articles, news_articles, articles,
          selected_article, images, generator_calls, copywrite, copied, call_no, tool_name,
          session_id, requests, init_headers, status_report, login_result,
          publish_result, result_error, out_dir, out_status, output_dir,
          result_run_id>>

schedVars == <<sched_pc, now, schedule_times, jitter_minutes, base, next_time,
               sched_run_count, run_phase, last_outcome, started>>

copyVars == <<copy_pc, data, profile, copy_result>>

unitVars == <<unit_pc, unit_args, unit_result>>

vars == <<pipelineVars, schedVars, copyVars, unitVars>>

optionVars == <<dry_run, cfg_dry_run, skip_images, images_host_dir>>
collectVars == <<rss_articles, news_articles, articles>>
stageVars == <<selected_article, images, generator_calls, copywrite>>
sessionVars == <<call_no, tool_name, session_id, requests, init_headers>>
publishVars == <<copied, status_report, login_result, publish_result, result_error>>
outputVars == <<out_dir, out_status, output_dir, result_run_id>>
storeVars == <<history_file, published>>

\* variant: a new run_id is made for the history entry
run_id_regenerated == IF pc = "save_history" THEN run_count + 1 ELSE run_count

\* run_id of the current run, made once at the head of Pipeline.run
run_id == run_count

NoResult == [status |-> "none", error_message |-> "", note_id |-> <<>>]
PublishResult(status, error_message, note_id) ==
    [status |-> status, error_message |-> error_message, note_id |-> note_id]

NoReport == [seen |-> FALSE, text |-> <<>>]

NoError == <<>>

\* ------------------------------------------------- publish session client
Request(method, sid, tool, call) ==
    [method |-> method, session |-> sid, tool |-> tool, call |-> call]

InitializeRequest(call) == Request("initialize", "", "", call)
NotificationRequest(sid, call) == Request("notifications/initialized", sid, "", call)
\* variant: the tools/call is sent without the session header
ToolsCallRequest_no_session(sid, tool, call) == Request("tools/call", "", tool, call)
ToolsCallRequest(sid, tool, call) == Request("tools/call", sid, tool, call)

\* answers of the endpoint to initialize: the POST raises, the status is an
\* error, or the response has the header absent, empty or set to a token
InitResponses ==
    {[kind |-> k, header |-> "<absent>"] : k \in {"exception", "http_error"}}
    \cup {[kind |-> "ok", header |-> h] : h \in {"<absent>", ""} \cup Tokens}

\* init_resp.headers.get("mcp-session-id", "")
header_session_id(resp) == IF resp.header = "<absent>" THEN "" ELSE resp.header

\* variant: the received session id is not checked
session_missing_unchecked(sid) == FALSE

\* if not session_id: raise RuntimeError
session_missing(sid) == sid = ""

\* the header as the client saw it; "<error>" when the POST or its status failed
SeenHeader(resp) == IF resp.kind = "ok" THEN resp.header ELSE "<error>"

\* answers of the endpoint to the notification: only a transport error matters
NotifyResponses == {"ok", "http_error", "exception"}

\* values of the "error" member of a JSON-RPC answer
ErrorPayloads == {<<"code_32000">>, <<"code_32602">>}

\* answers of the endpoint to tools/call
ToolsCallResponses(tool) ==
    {[kind |-> k, content |-> "none", text |-> <<>>] :
        k \in {"exception", "http_error", "bad_json"}}
    \cup {[kind |-> "error_obj", content |-> "none", text |-> e] : e \in ErrorPayloads}
    \cup {[kind |-> "result", content |-> c, text |-> <<>>] :
            c \in {"missing", "empty", "bad_item"}}
    \cup {[kind |-> "result", content |-> "text", text |-> t] :
            t \in IF tool = "check_login_status" THEN StatusTexts ELSE NoteTexts}

\* what _call_mcp_tool gives its caller
CallRaised(kind) == [raised |-> TRUE, kind |-> kind, content |-> "none", text |-> <<>>]
CallReturned(content, text) ==
    [raised |-> FALSE, kind |-> "", content |-> content, text |-> text]

\* f"MCP ...: {result['error']}", the text of the RuntimeError
mcp_error_message(payload) ==
    IF payload = <<"code_32000">> THEN "MCP error: code_32000"
    ELSE "MCP error: code_32602"

\* variant: the "error" member of the answer is not looked at
call_mcp_tool_result_ignoring_error(resp) ==
    IF resp.kind \in {"exception", "http_error", "bad_json"}
    THEN CallRaised(resp.kind)
    ELSE IF resp.kind = "error_obj" THEN CallReturned("missing", <<>>)
    ELSE CallReturned(resp.content, resp.text)

call_mcp_tool_result(resp) ==
    IF resp.kind \in {"exception", "http_error", "bad_json"}
    THEN CallRaised(resp.kind)
    ELSE IF resp.kind = "error_obj" THEN CallRaised(mcp_error_message(resp.text))
    ELSE CallReturned(resp.content, resp.text)

\* content[0].get("text", "") if content else ""
result_text(outcome) == IF outcome.content = "text" THEN outcome.text ELSE <<>>

\* variant: the except branch of check_login answers True
check_login_true_on_error(outcome) ==
    IF outcome.raised \/ outcome.content = "bad_item" THEN TRUE
    ELSE text_indicates_login(result_text(outcome))

check_login(outcome) ==
    IF outcome.raised \/ outcome.content = "bad_item" THEN FALSE
    ELSE text_indicates_login(result_text(outcome))

\* the try/except around the publish_content call
publish_after_call(outcome) ==
    IF outcome.raised THEN PublishResult(FAILED, outcome.kind, <<>>)
    ELSE IF outcome.content = "bad_item" THEN PublishResult(FAILED, "AttributeError", <<>>)
    ELSE PublishResult(PUBLISHED, "", Strip(result_text(outcome)))

\* variant: a logical call goes on with the session the previous one left
call_entry_reusing_session(previous_session) ==
    IF previous_session # "" THEN "tools_call" ELSE "initialize"

\* _call_mcp_tool opens its own client and calls _create_session first
call_entry(previous_session) == "initialize"

\* variant: the run option overrides the configuration
publisher_dry_run_option_wins(opt, cfg) == opt

\* dry_run=dry_run or publish_cfg.get("dry_run", False)
publisher_dry_run(opt, cfg) == opt \/ cfg

\* variant: the login is checked before the dry-run flag is looked at
publish_first_step_login_first(is_dry_run) == "check_login"

\* publish: if self._dry_run, return at once; else check the login first
publish_first_step(is_dry_run) == IF is_dry_run THEN "return_dry_run" ELSE "check_login"

\* variant: a failed publish_content call is re-raised instead of returned
AfterCall_reraising(tool, outcome) ==
    IF tool = "check_login_status"
    THEN IF check_login(outcome)
         THEN [pc |-> "copy_assets", login_result |-> "true",
               publish_result |-> publish_result]
         ELSE [pc |-> "save_output", login_result |-> "false",
               publish_result |-> PublishResult(FAILED, LoginRequiredMsg, <<>>)]
    ELSE [pc |-> IF outcome.raised THEN "raised" ELSE "save_output",
          login_result |-> login_result,
          publish_result |-> publish_after_call(outcome)]

\* variant: a publish_content call that raised is tried again
AfterCall_retrying(tool, outcome) ==
    IF tool = "check_login_status"
    THEN IF check_login(outcome)
         THEN [pc |-> "copy_assets", login_result |-> "true",
               publish_result |-> publish_result]
         ELSE [pc |-> "save_output", login_result |-> "false",
               publish_result |-> PublishResult(FAILED, LoginRequiredMsg, <<>>)]
    ELSE [pc |-> IF outcome.raised THEN "initialize" ELSE "save_output",
          login_result |-> login_result,
          publish_result |-> publish_after_call(outcome)]

\* how publish goes on once a logical call has returned or raised
AfterCall(tool, outcome) ==
    IF tool = "check_login_status"
    THEN IF check_login(outcome)
         THEN [pc |-> "copy_assets", login_result |-> "true",
               publish_result |-> publish_result]
         ELSE [pc |-> "save_output", login_result |-> "false",
               publish_result |-> PublishResult(FAILED, LoginRequiredMsg, <<>>)]
    ELSE [pc |-> "save_output", login_result |-> login_result,
          publish_result |-> publish_after_call(outcome)]

PublishedLog(result) ==
    IF result.status = PUBLISHED
    THEN Append(published, [article_id |-> selected_article, run_id |-> run_id])
    ELSE published

\* ------------------------------------------------------------ actions
PipelineInit ==
    /\ history_file \in {AbsentFile, MalformedFile, ValidFile(<<>>)}
    /\ published = <<>>
    /\ run_count = 0
    /\ pc = "idle"
    /\ raised_in = ""
    /\ dry_run = FALSE /\ cfg_dry_run = FALSE
    /\ skip_images = FALSE /\ images_host_dir = FALSE
    /\ rss_articles = <<>> /\ news_articles = <<>> /\ articles = <<>>
    /\ selected_article = "" /\ images = 0 /\ copywrite = ""
    /\ generator_calls = 0
    /\ copied = 0 /\ call_no = 0 /\ tool_name = "" /\ session_id = ""
    /\ requests = <<>> /\ init_headers = <<>>
    /\ status_report = NoReport /\ login_result = "none"
    /\ publish_result = NoResult /\ result_error = NoError
    /\ out_dir = <<>> /\ out_status = ""
    /\ output_dir = 0 /\ result_run_id = 0

\* run_scheduler has not been called
SchedulerOff ==
    /\ sched_pc = "off" /\ now = 0
    /\ schedule_times = <<>> /\ jitter_minutes = 0
    /\ base = 0 /\ next_time = 0
    /\ sched_run_count = 0 /\ run_phase = "none" /\ last_outcome = ""
    /\ started = <<>>

NoProfile == [title_max_length |-> 0, body_max_length |-> 0, hashtag_count |-> 0]
NoCopy == [title |-> <<>>, body |-> <<>>, hashtags |-> <<>>]

\* CopywriteGenerator.generate is not looked into
CopywriterOff ==
    /\ copy_pc = "off"
    /\ data = <<>> /\ profile = NoProfile /\ copy_result = NoCopy

\* no function is looked at on its own
UnitOff == unit_pc = "off" /\ unit_args = <<>> /\ unit_result = <<>>

Init == PipelineInit /\ SchedulerOff /\ CopywriterOff /\ UnitOff

\* variant: an exception of the style stage is swallowed and the run goes on
Raise_swallowed_in_style(stage) ==
    pc' = (IF stage = "style" THEN "image" ELSE "raised") /\ raised_in' = stage

\* an exception leaves the stage and, nothing in run catching it, the run
Raise(stage) == pc' = "raised" /\ raised_in' = stage

\* Pipeline.run up to the collect stage: run_id, load_config, load_profile.
\* The run options and the configuration values are drawn where run reads them.
StartRun ==
    /\ UNCHANGED <<schedVars, copyVars, unitVars>>
    /\ pc = "idle"
    /\ run_count < MaxRuns
    /\ run_count' = run_count + 1
    /\ \E loaded \in BOOLEAN :
        IF loaded THEN pc' = "collect" /\ raised_in' = raised_in
        ELSE Raise("config")
    /\ UNCHANGED <<storeVars, optionVars, collectVars, stageVars, sessionVars,
                   publishVars, outputVars>>

\* collect_all: the two sources are fetched
FetchSources ==
    /\ UNCHANGED <<schedVars, copyVars, unitVars>>
    /\ pc = "collect"
    /\ \E raw_rss \in SeqsUpTo(Urls, MaxOffer), raw_news \in SeqsUpTo(Urls, MaxOffer),
          news_api_key \in BOOLEAN :
        /\ rss_articles' = fetch_rss_articles(raw_rss)
        /\ news_articles' = IF news_api_key THEN fetch_news_articles(raw_news) ELSE <<>>
    /\ pc' = "merge"
    /\ UNCHANGED <<storeVars, run_count, raised_in, optionVars, articles,
                   stageVars, sessionVars, publishVars, outputVars>>

\* collect_all: merge, drop the published, sort, truncate; run aborts on no candidate
Merge ==
    /\ UNCHANGED <<schedVars, copyVars, unitVars>>
    /\ pc = "merge"
    /\ articles' = collect_all(rss_articles, news_articles, history_file, MaxCandidates)
    /\ IF articles' = <<>> THEN Raise("collect")
       ELSE pc' = "select" /\ raised_in' = raised_in
    /\ UNCHANGED <<storeVars, run_count, optionVars, rss_articles, news_articles,
                   stageVars, sessionVars, publishVars, outputVars>>

\* 1-based position ArticleSelector.select reads for the index the AI gave,
\* 0 when articles[selected_index] raises IndexError
selected_position(selected_index, n) ==
    LET idx == IF selected_index >= n THEN 0 ELSE selected_index
    IN IF idx >= 0 THEN idx + 1
       ELSE IF idx >= -n THEN n + idx + 1
       ELSE 0

\* ArticleSelector.select: the provider or the JSON parsing may raise.
\* rss_articles and news_articles, locals of collect_all, are let go here.
Select ==
    /\ UNCHANGED <<schedVars, copyVars, unitVars>>
    /\ pc = "select"
    /\ \/ /\ Raise("select")
          /\ UNCHANGED selected_article
       \/ \E selected_index \in (-(Len(articles) + 1))..(Len(articles) + 1) :
            LET pos == selected_position(selected_index, Len(articles))
            IN IF pos = 0
               THEN Raise("select") /\ UNCHANGED selected_article
               ELSE /\ selected_article' = articles[pos].id
                    /\ pc' = "style" /\ raised_in' = raised_in
    /\ rss_articles' = <<>> /\ news_articles' = <<>>
    /\ UNCHANGED <<storeVars, run_count, optionVars, articles, images, generator_calls,
                   copywrite, sessionVars, publishVars, outputVars>>

\* StyleManager.select_best_styles; from here on run reads the candidates
\* only for their number, so the model lets them go
StyleSelect ==
    /\ UNCHANGED <<schedVars, copyVars, unitVars>>
    /\ pc = "style"
    /\ \E ok \in BOOLEAN :
        IF ok THEN pc' = "image" /\ raised_in' = raised_in ELSE Raise("style")
    /\ articles' = <<>>
    /\ UNCHANGED <<storeVars, run_count, optionVars, rss_articles, news_articles,
                   stageVars, sessionVars, publishVars, outputVars>>

\* variant: an empty image list is handed on
no_image_generated_accepted(k) == FALSE

\* if not images: raise RuntimeError
no_image_generated(k) == k = 0

\* variant: the skip option is not looked at
image_stage_skipped_never(skip) == FALSE

\* if skip_images: images = []
image_stage_skipped(skip) == skip

\* stage 4: skipped, or k of number_of_images calls succeed; none is fatal
ImageGenerate ==
    /\ UNCHANGED <<schedVars, copyVars, unitVars>>
    /\ pc = "image"
    /\ \E skip \in BOOLEAN :
        /\ skip_images' = skip
        /\ IF image_stage_skipped(skip)
           THEN /\ images' = 0 /\ generator_calls' = 0
                /\ pc' = "copy" /\ raised_in' = raised_in
           ELSE /\ generator_calls' = NumberOfImages
                /\ \E k \in 0..NumberOfImages :
                     IF no_image_generated(k) THEN Raise("image") /\ UNCHANGED images
                     ELSE images' = k /\ pc' = "copy" /\ raised_in' = raised_in
    /\ UNCHANGED <<storeVars, run_count, dry_run, cfg_dry_run, images_host_dir,
                   collectVars, selected_article,
                   copywrite, sessionVars, publishVars, outputVars>>

\* CopywriteGenerator.generate
CopyGenerate ==
    /\ UNCHANGED <<schedVars, copyVars, unitVars>>
    /\ pc = "copy"
    /\ \E ok \in BOOLEAN :
        IF ok THEN /\ copywrite' = selected_article
                   /\ pc' = "publish" /\ raised_in' = raised_in
        ELSE Raise("copy") /\ UNCHANGED copywrite
    /\ UNCHANGED <<storeVars, run_count, optionVars, collectVars, selected_article,
                   images, generator_calls, sessionVars, publishVars, outputVars>>

\* XhsPublisher.publish, entry: the dry-run return, else check_login starts
PublishStart ==
    /\ UNCHANGED <<schedVars, copyVars, unitVars>>
    /\ pc = "publish"
    /\ \E opt \in BOOLEAN, cfg \in BOOLEAN, host_dir \in BOOLEAN :
        /\ dry_run' = opt /\ cfg_dry_run' = cfg /\ images_host_dir' = host_dir
        /\ IF publish_first_step(publisher_dry_run(opt, cfg)) = "return_dry_run"
           THEN /\ publish_result' = PublishResult(DRY_RUN, "", <<>>)
                /\ pc' = "save_output"
                /\ UNCHANGED <<call_no, tool_name>>
           ELSE /\ pc' = call_entry(session_id)
                /\ tool_name' = "check_login_status"
                /\ call_no' = call_no + 1
                /\ UNCHANGED publish_result
    /\ UNCHANGED <<storeVars, run_count, raised_in, skip_images, collectVars, stageVars,
                   session_id, requests, init_headers, copied, status_report,
                   login_result, result_error, outputVars>>

\* _create_session, step 1: POST initialize, raise_for_status, read the header
Initialize ==
    /\ UNCHANGED <<schedVars, copyVars, unitVars>>
    /\ pc = "initialize"
    /\ requests' = Append(requests, InitializeRequest(call_no))
    /\ \E resp \in InitResponses :
        LET sid == IF resp.kind = "ok" THEN header_session_id(resp) ELSE ""
            after == IF resp.kind # "ok" THEN AfterCall(tool_name, CallRaised(resp.kind))
                     ELSE IF session_missing(sid)
                     THEN AfterCall(tool_name, CallRaised("no_session_id"))
                     ELSE [pc |-> "notify", login_result |-> login_result,
                           publish_result |-> publish_result]
        IN /\ session_id' = sid
           /\ init_headers' = Append(init_headers, SeenHeader(resp))
           /\ pc' = after.pc
           /\ login_result' = after.login_result
           /\ publish_result' = after.publish_result
    /\ UNCHANGED <<storeVars, run_count, raised_in, optionVars, collectVars, stageVars,
                   call_no, tool_name, copied, status_report, result_error,
                   outputVars>>

\* _create_session, step 2: POST notifications/initialized, status not checked
Notify ==
    /\ UNCHANGED <<schedVars, copyVars, unitVars>>
    /\ pc = "notify"
    /\ requests' = Append(requests, NotificationRequest(session_id, call_no))
    /\ \E resp \in NotifyResponses :
        LET after == IF resp = "exception"
                     THEN AfterCall(tool_name, CallRaised("exception"))
                     ELSE [pc |-> "tools_call", login_result |-> login_result,
                           publish_result |-> publish_result]
        IN /\ pc' = after.pc
           /\ login_result' = after.login_result
           /\ publish_result' = after.publish_result
    /\ UNCHANGED <<storeVars, run_count, raised_in, optionVars, collectVars, stageVars,
                   call_no, tool_name, session_id, init_headers, copied, status_report,
                   result_error, outputVars>>

\* _call_mcp_tool, step 3, and what the caller makes of the result
ToolsCall ==
    /\ UNCHANGED <<schedVars, copyVars, unitVars>>
    /\ pc = "tools_call"
    /\ requests' = Append(requests, ToolsCallRequest(session_id, tool_name, call_no))
    /\ \E resp \in ToolsCallResponses(tool_name) :
        LET after == AfterCall(tool_name, call_mcp_tool_result(resp))
        IN /\ pc' = after.pc
           /\ login_result' = after.login_result
           /\ publish_result' = after.publish_result
           /\ published' = PublishedLog(after.publish_result)
           /\ result_error' = IF resp.kind = "error_obj" THEN resp.text ELSE NoError
           /\ status_report' =
                IF tool_name = "check_login_status" /\ resp.content = "text"
                THEN [seen |-> TRUE, text |-> resp.text] ELSE status_report
    /\ UNCHANGED <<history_file, run_count, raised_in, optionVars, collectVars, stageVars,
                   call_no, tool_name, session_id, init_headers, copied, outputVars>>

\* publish after a successful login check: the images are copied into
\* images_host_dir when it is set (mkdir or a copy may raise), then the
\* publish_content call starts
CopyAssets ==
    /\ UNCHANGED <<schedVars, copyVars, unitVars>>
    /\ pc = "copy_assets"
    /\ \/ /\ copied' = IF images_host_dir THEN images ELSE 0
          /\ pc' = call_entry(session_id)
          /\ tool_name' = "publish_content"
          /\ call_no' = call_no + 1
          /\ session_id' = ""
          /\ result_error' = NoError
          /\ UNCHANGED raised_in
       \/ /\ images_host_dir
          /\ \E failing \in 0..images :
               copied' = IF failing = 0 THEN 0 ELSE failing - 1
          /\ Raise("publish")
          /\ UNCHANGED <<tool_name, call_no, session_id, result_error>>
    /\ UNCHANGED <<storeVars, run_count, optionVars, collectVars, stageVars,
                   requests, init_headers, status_report, login_result, publish_result,
                   outputVars>>

\* variant: history is appended unless the outcome is failed
history_append_needed_unless_failed(result) == result.status # FAILED

\* publish_result.status.value == "published"
history_append_needed(result) == result.status = PUBLISHED

\* _save_run_output: three files in order; a write may raise
SaveRunOutput ==
    /\ UNCHANGED <<schedVars, copyVars, unitVars>>
    /\ pc = "save_output"
    /\ \E written \in 0..Len(ArtifactFiles) :
        /\ out_dir' = Take(ArtifactFiles, written)
        /\ output_dir' = IF written > 0 THEN run_id ELSE 0
        /\ result_run_id' = run_id
        /\ IF written = Len(ArtifactFiles)
           THEN /\ out_status' = publish_result.status
                /\ pc' = IF history_append_needed(publish_result)
                         THEN "save_history" ELSE "returned"
                /\ UNCHANGED raised_in
           ELSE /\ out_status' = ""
                /\ Raise("save_run_output")
    /\ UNCHANGED <<storeVars, run_count, optionVars, collectVars, stageVars, sessionVars,
                   publishVars>>

\* _save_history after a Published outcome; reading or writing may raise
SaveHistory ==
    /\ UNCHANGED <<schedVars, copyVars, unitVars>>
    /\ pc = "save_history"
    /\ \/ /\ history_file' = save_history(history_file, selected_article, run_id)
          /\ pc' = "returned"
          /\ UNCHANGED raised_in
       \/ /\ Raise("save_history")
          /\ UNCHANGED history_file
    /\ UNCHANGED <<published, run_count, optionVars, collectVars, stageVars, sessionVars,
                   publishVars, outputVars>>

\* the run has returned or raised: the caller (CLI, scheduler loop) takes over
Finish ==
    /\ UNCHANGED <<schedVars, copyVars, unitVars>>
    /\ pc \in {"returned", "raised"}
    /\ pc' = "idle"
    /\ raised_in' = ""
    /\ dry_run' = FALSE /\ cfg_dry_run' = FALSE
    /\ skip_images' = FALSE /\ images_host_dir' = FALSE
    /\ rss_articles' = <<>> /\ news_articles' = <<>> /\ articles' = <<>>
    /\ selected_article' = "" /\ images' = 0 /\ copywrite' = ""
    /\ generator_calls' = 0
    /\ copied' = 0 /\ call_no' = 0 /\ tool_name' = "" /\ session_id' = ""
    /\ requests' = <<>> /\ init_headers' = <<>>
    /\ status_report' = NoReport /\ login_result' = "none"
    /\ publish_result' = NoResult /\ result_error' = NoError
    /\ out_dir' = <<>> /\ out_status' = ""
    /\ output_dir' = 0 /\ result_run_id' = 0
    /\ UNCHANGED <<storeVars, run_count>>

Next ==
    \/ StartRun
    \/ FetchSources
    \/ Merge
    \/ Select
    \/ StyleSelect
    \/ ImageGenerate
    \/ CopyGenerate
    \/ PublishStart
    \/ Initialize
    \/ Notify
    \/ ToolsCall
    \/ CopyAssets
    \/ SaveRunOutput
    \/ SaveHistory
    \/ Finish

Spec == Init /\ [][Next]_vars

\* ---------------------------------------------------------- scheduler
\* Times are local wall-clock minutes; the configured zone has no clock
\* change in the window looked at.
DayMinutes == 1440
CooldownMinutes == 1

DEFAULT_TIMES == <<480, 720, 1200>>

InsertAsc(x, s) ==
    LET smaller == {i \in 1..Len(s) : s[i] <= x}
        k == Cardinality(smaller)
    IN SubSeq(s, 1, k) \o <<x>> \o SubSeq(s, k + 1, Len(s))

RECURSIVE SortAsc(_)
SortAsc(s) == IF s = <<>> THEN <<>> ELSE InsertAsc(Head(s), SortAsc(Tail(s)))

\* _parse_times: the configured "HH:MM" strings, sorted
parse_times(raw_times) == SortAsc(raw_times)

\* schedule.times of the configuration: a non-empty list of times of the day
RawTimes == SeqsUpTo(Range(DEFAULT_TIMES), MaxTimes) \ {<<>>}

\* variant: only today's instant is looked at
SlotCandidates_today_only(base_time, today, local_now) ==
    SelectSeq(<<today + base_time>>, LAMBDA dt : dt > local_now)

\* the inner loop of _next_run for one base_time: today's and tomorrow's
\* instant, each kept when it is after local_now
SlotCandidates(base_time, today, local_now) ==
    SelectSeq(<<today + base_time, today + DayMinutes + base_time>>,
              LAMBDA dt : dt > local_now)

RECURSIVE Candidates(_, _, _)
Candidates(times, today, local_now) ==
    IF times = <<>> THEN <<>>
    ELSE SlotCandidates(Head(times), today, local_now)
         \o Candidates(Tail(times), today, local_now)

\* base of _next_run: the first element of candidates
next_base(local_now, times) ==
    LET today == (local_now \div DayMinutes) * DayMinutes
        candidates == Candidates(times, today, local_now)
    IN IF candidates = <<>> THEN today + DayMinutes + times[1]
       ELSE candidates[1]

\* _next_run for one sample of random.randint(-jitter_minutes, jitter_minutes)
next_run(local_now, times, jitter) == next_base(local_now, times) + jitter

\* variant: the wait is not clamped at zero
after_sleep_unclamped(clock, wake) == wake

\* wait_seconds = max(0, next_time - now), then asyncio.sleep(wait_seconds)
after_sleep(clock, wake) == IF wake > clock THEN wake ELSE clock

\* variant: the run is started as a task and not awaited
after_start_not_awaited == "cooldown"

\* result = await pipeline.run(...)
after_start == "await"

\* variant: an exception of the run leaves the loop
after_run_propagating(outcome) == IF outcome = "raised" THEN "exited" ELSE "cooldown"

\* try ... except Exception: log; then the cooldown
after_run(outcome) == "cooldown"

\* the moments run_scheduler is started at
StartMinutes == {420, 600, 1260}

SchedulerStarts(clocks) ==
    /\ CopywriterOff /\ UnitOff
    /\ sched_pc = "compute"
    /\ now \in clocks
    /\ \E raw_times \in RawTimes : schedule_times = parse_times(raw_times)
    /\ jitter_minutes \in 0..MaxJitter
    /\ base = 0 /\ next_time = 0
    /\ sched_run_count = 0 /\ run_phase = "none" /\ last_outcome = ""
    /\ started = <<>>

SchedInit ==
    /\ PipelineInit /\ history_file = AbsentFile
    /\ SchedulerStarts(StartMinutes)

\* loop head: now, next_time = _next_run(...)
Compute ==
    /\ sched_pc = "compute"
    /\ sched_run_count < MaxSchedRuns
    /\ \E jitter \in (-jitter_minutes)..jitter_minutes :
        /\ base' = next_base(now, schedule_times)
        /\ next_time' = next_run(now, schedule_times, jitter)
    /\ sched_pc' = "sleep"
    /\ UNCHANGED <<pipelineVars, copyVars, unitVars, now, schedule_times, jitter_minutes,
                   sched_run_count, run_phase, last_outcome, started>>

\* await asyncio.sleep(wait_seconds)
Sleep ==
    /\ sched_pc = "sleep"
    /\ now' = after_sleep(now, next_time)
    /\ sched_pc' = "start"
    /\ UNCHANGED <<pipelineVars, copyVars, unitVars, schedule_times, jitter_minutes, base, next_time,
                   sched_run_count, run_phase, last_outcome, started>>

\* run_count += 1; Pipeline(...); pipeline.run(dry_run=dry_run) is entered
StartPipeline ==
    /\ sched_pc = "start"
    /\ sched_run_count' = sched_run_count + 1
    /\ started' = Append(started, base)
    /\ run_phase' = "stages"
    /\ sched_pc' = after_start
    /\ UNCHANGED <<pipelineVars, copyVars, unitVars, now, schedule_times, jitter_minutes, base, next_time,
                   last_outcome>>

\* Pipeline.run in outline: the stages up to publish, the artifacts, the
\* history append after a Published outcome; each may raise
RunStep ==
    /\ run_phase \in {"stages", "persist", "history"}
    /\ run_phase' \in
         CASE run_phase = "stages" -> {"persist", "raised"}
           [] run_phase = "persist" -> {"history", "returned", "raised"}
           [] run_phase = "history" -> {"returned", "raised"}
    /\ UNCHANGED <<pipelineVars, copyVars, unitVars, sched_pc, now, schedule_times, jitter_minutes, base,
                   next_time, sched_run_count, last_outcome, started>>

\* the awaited run returns or raises; the run took `minutes`
RunEnds ==
    /\ sched_pc = "await"
    /\ run_phase \in {"returned", "raised"}
    /\ \E minutes \in 0..MaxRunMinutes : now' = now + minutes
    /\ last_outcome' = run_phase
    /\ run_phase' = "none"
    /\ sched_pc' = after_run(run_phase)
    /\ UNCHANGED <<pipelineVars, copyVars, unitVars, schedule_times, jitter_minutes, base, next_time,
                   sched_run_count, started>>

\* await asyncio.sleep(60), back to the loop head
Cooldown ==
    /\ sched_pc = "cooldown"
    /\ now' = now + CooldownMinutes
    /\ sched_pc' = "compute"
    /\ UNCHANGED <<pipelineVars, copyVars, unitVars, schedule_times, jitter_minutes, base, next_time,
                   sched_run_count, run_phase, last_outcome, started>>

SchedNext ==
    \/ Compute
    \/ Sleep
    \/ StartPipeline
    \/ RunStep
    \/ RunEnds
    \/ Cooldown

SchedSpec == SchedInit /\ [][SchedNext]_vars

\* the event loop resumes a coroutine whose sleep is over, and every run ends
SchedFairSpec == SchedSpec /\ WF_vars(SchedNext)

\* _next_run on its own: every minute of a day as now
NextRunInit ==
    /\ PipelineInit /\ history_file = AbsentFile
    /\ SchedulerStarts(0..(DayMinutes - 1))

NextRunSpec == NextRunInit /\ [][Compute]_vars

\* ------------------------------------------------- copy generation
\* CopywriteGenerator.generate from the parsed answer of the provider on
TextChars == {" ", "a"}
Hashtags == {"t1", "t2"}

\* the JSON object of the answer: each of the three keys may be missing
DataWith(keys) ==
    {[k \in keys |-> IF k = "title" THEN t ELSE IF k = "body" THEN b ELSE h] :
        t \in SeqsUpTo(TextChars, MaxTitleLen),
        b \in SeqsUpTo(TextChars, MaxBodyLen),
        h \in SeqsUpTo(Hashtags, MaxTags)}

ProviderData == UNION {DataWith(keys) : keys \in SUBSET {"title", "body", "hashtags"}}

\* title_max_length, body_max_length, hashtag_count of the account profile
Profiles ==
    [title_max_length : 0..MaxLimit, body_max_length : 0..MaxLimit,
     hashtag_count : 0..MaxLimit]

\* data.get(key, default)
get(d, key, default) == IF key \in DOMAIN d THEN d[key] ELSE default

\* variant: the forced truncation is left out
truncate_nothing(text, max_length) == text

\* if len(text) > max_length: text = text[:max_length]
truncate(text, max_length) ==
    IF Len(text) > max_length THEN SubSeq(text, 1, max_length) ELSE text

generate(d, p) ==
    LET title == Strip(get(d, "title", <<>>))
        body == Strip(get(d, "body", <<>>))
        hashtags == get(d, "hashtags", <<>>)
    IN [title |-> truncate(title, p.title_max_length),
        body |-> truncate(body, p.body_max_length),
        hashtags |-> Take(hashtags, p.hashtag_count)]

CopyInit ==
    /\ PipelineInit /\ history_file = AbsentFile
    /\ SchedulerOff /\ UnitOff
    /\ copy_pc = "parsed"
    /\ data \in ProviderData
    /\ profile \in Profiles
    /\ copy_result = NoCopy

Generate ==
    /\ copy_pc = "parsed"
    /\ copy_result' = generate(data, profile)
    /\ copy_pc' = "done"
    /\ UNCHANGED <<pipelineVars, schedVars, unitVars, data, profile>>

CopySpec == CopyInit /\ [][Generate]_vars

\* ------------------------------------------------- article selection
\* ArticleSelector.select on its own, called by Pipeline.run after the
\* collect stage or directly. The category strings stand for the five
\* Chinese category names of _CATEGORY_MAP.
CATEGORY_MAP ==
    [c \in {"chengfen_fenxi", "shipin_bilei", "jiankang_tidai", "redian_huati",
            "pinpai_chaijie"} |->
        CASE c = "chengfen_fenxi" -> "INGREDIENT_ANALYSIS"
          [] c = "shipin_bilei" -> "FOOD_WARNING"
          [] c = "jiankang_tidai" -> "HEALTHY_ALTERNATIVE"
          [] c = "redian_huati" -> "TRENDING_TOPIC"
          [] c = "pinpai_chaijie" -> "BRAND_TEARDOWN"]

\* ContentCategory of models.py
ContentCategory == {CATEGORY_MAP[c] : c \in DOMAIN CATEGORY_MAP}

\* the "category" member of the answer: missing, a string, or a JSON array
CategoryAnswers == DOMAIN CATEGORY_MAP \cup {"<missing>", "some other text", "<array>"}

\* the candidate tuples: what collect_all may return, the empty tuple included
CandidateTuples ==
    {Take(<<Article("u1", RSS), Article("u2", NEWS_API), Article("u3", RSS)>>, n) :
        n \in 0..MaxCandidates}

\* what the provider answers to the selection prompt: the call raises, the
\* text has no braces, the braces hold no JSON, or a JSON object
SelectorAnswers ==
    {[kind |-> k, has_index |-> FALSE, selected_index |-> 0, category |-> "<missing>"] :
        k \in {"provider_error", "no_json", "bad_json"}}
    \cup {[kind |-> "object", has_index |-> FALSE, selected_index |-> 0,
           category |-> c] : c \in CategoryAnswers}
    \cup {[kind |-> "object", has_index |-> TRUE, selected_index |-> i,
           category |-> c] :
            i \in (-(MaxCandidates + 1))..(MaxCandidates + 1), c \in CategoryAnswers}

NoSelection ==
    [raised |-> "", provider_calls |-> 0, selected_article |-> "", category |-> "",
     copy_category |-> ""]

SelectionRaised(exception, calls) ==
    [raised |-> exception, provider_calls |-> calls, selected_article |-> "",
     category |-> "", copy_category |-> ""]

\* variant: an unknown category string is an error
category_of_strict(category_answer) ==
    IF category_answer = "<missing>" THEN "INGREDIENT_ANALYSIS"
    ELSE IF category_answer \in DOMAIN CATEGORY_MAP THEN CATEGORY_MAP[category_answer]
    ELSE "<KeyError>"

\* _CATEGORY_MAP.get(data.get("category", default), INGREDIENT_ANALYSIS)
category_of(category_answer) ==
    LET category_str == IF category_answer = "<missing>" THEN "chengfen_fenxi"
                        ELSE category_answer
    IN IF category_str \in DOMAIN CATEGORY_MAP THEN CATEGORY_MAP[category_str]
       ELSE "INGREDIENT_ANALYSIS"

\* variant: the empty tuple is not turned away
rejects_empty_never(candidates) == FALSE

\* if not articles: raise ValueError
rejects_empty(candidates) == candidates = <<>>

select(candidates, answer) ==
    IF rejects_empty(candidates) THEN SelectionRaised("ValueError: empty", 0)
    ELSE IF answer.kind = "provider_error" THEN SelectionRaised("provider error", 1)
    ELSE IF answer.kind = "no_json" THEN SelectionRaised("ValueError: no JSON", 1)
    ELSE IF answer.kind = "bad_json" THEN SelectionRaised("JSONDecodeError", 1)
    ELSE IF answer.category = "<array>" THEN SelectionRaised("TypeError", 1)
    ELSE LET selected_index == IF answer.has_index THEN answer.selected_index ELSE 0
             pos == selected_position(selected_index, Len(candidates))
         IN IF pos = 0 \/ pos > Len(candidates) THEN SelectionRaised("IndexError", 1)
            ELSE [raised |-> "", provider_calls |-> 1,
                  selected_article |-> candidates[pos].id,
                  category |-> category_of(answer.category),
                  copy_category |-> ""]

SelectInit ==
    /\ PipelineInit /\ history_file = AbsentFile
    /\ SchedulerOff /\ CopywriterOff
    /\ \E via \in {"pipeline", "direct"}, candidates \in CandidateTuples,
          answer \in SelectorAnswers :
        /\ unit_args = [via |-> via, articles |-> candidates, answer |-> answer]
        /\ unit_pc = IF via = "pipeline" THEN "collected" ELSE "select"
    /\ unit_result = NoSelection

\* Pipeline.run after collect_all: no candidate ends the run, else select is called
PipelineCallsSelect ==
    /\ unit_pc = "collected"
    /\ unit_pc' = IF unit_args.articles = <<>> THEN "run_raised" ELSE "select"
    /\ UNCHANGED <<pipelineVars, schedVars, copyVars, unit_args, unit_result>>

SelectorSelect ==
    /\ unit_pc = "select"
    /\ unit_result' = select(unit_args.articles, unit_args.answer)
    /\ unit_pc' = IF unit_result'.raised = "" THEN "selected" ELSE "raised"
    /\ UNCHANGED <<pipelineVars, schedVars, copyVars, unit_args>>

\* CopywriteGenerator.generate: category=filter_result.category
CopyCategory ==
    /\ unit_pc = "selected"
    /\ unit_result' = [unit_result EXCEPT !.copy_category = unit_result.category]
    /\ unit_pc' = "copied"
    /\ UNCHANGED <<pipelineVars, schedVars, copyVars, unit_args>>

SelectNext ==
    \/ PipelineCallsSelect
    \/ SelectorSelect
    \/ CopyCategory

SelectSpec == SelectInit /\ [][SelectNext]_vars

\* ---------------------------------------------------- style selection
\* StyleManager.select_best_styles on its own: two catalogs of style ids and
\* the text the provider answers.
MaxStyles == 2   \* styles per catalog

CopywriteCatalogs == {Take(<<"c1", "c2", "c3">>, n) : n \in 0..MaxStyles}

ImageCatalogs == {Take(<<"i1", "i2", "i3">>, n) : n \in 0..MaxStyles}

\* the response: text without braces, braces that hold no JSON, or a JSON
\* object whose id members are missing, known or unknown
StyleResponses ==
    {[kind |-> k, copywrite_style_id |-> "<missing>", image_style_id |-> "<missing>"] :
        k \in {"no_json", "bad_json"}}
    \cup {[kind |-> "object", copywrite_style_id |-> c, image_style_id |-> i] :
            c \in {"<missing>", "c1", "c2", "unknown"},
            i \in {"<missing>", "i1", "i2", "unknown"}}

NoStyles == [raised |-> "", copy_style |-> "", img_style |-> ""]

\* StyleManager._extract_json: {} without braces, json.loads otherwise
style_extract_json(response) ==
    IF response.kind = "no_json"
    THEN [raised |-> "", copywrite_style_id |-> "<missing>", image_style_id |-> "<missing>"]
    ELSE IF response.kind = "bad_json"
    THEN [raised |-> "JSONDecodeError", copywrite_style_id |-> "<missing>",
          image_style_id |-> "<missing>"]
    ELSE [raised |-> "", copywrite_style_id |-> response.copywrite_style_id,
          image_style_id |-> response.image_style_id]

\* next((s for s in styles if s.id == wanted), styles[0])
first_match(styles, wanted) ==
    IF \E k \in 1..Len(styles) : styles[k] = wanted
    THEN styles[CHOOSE k \in 1..Len(styles) :
                  /\ styles[k] = wanted
                  /\ \A j \in 1..(k - 1) : styles[j] # wanted]
    ELSE styles[1]

select_best_styles(copywrite_styles, image_styles, response) ==
    IF copywrite_styles = <<>> \/ image_styles = <<>>
    THEN [raised |-> "RuntimeError", copy_style |-> "", img_style |-> ""]
    ELSE LET decision == style_extract_json(response)
         IN IF decision.raised # ""
            THEN [raised |-> decision.raised, copy_style |-> "", img_style |-> ""]
            ELSE [raised |-> "",
                  copy_style |-> first_match(copywrite_styles, decision.copywrite_style_id),
                  img_style |-> first_match(image_styles, decision.image_style_id)]

StyleInit ==
    /\ PipelineInit /\ history_file = AbsentFile
    /\ SchedulerOff /\ CopywriterOff
    /\ unit_pc = "style_select"
    /\ \E cs \in CopywriteCatalogs, is \in ImageCatalogs, response \in StyleResponses :
        unit_args = [copywrite_styles |-> cs, image_styles |-> is, response |-> response]
    /\ unit_result = NoStyles

SelectBestStyles ==
    /\ unit_pc = "style_select"
    /\ unit_result' = select_best_styles(unit_args.copywrite_styles,
                                         unit_args.image_styles, unit_args.response)
    /\ unit_pc' = IF unit_result'.raised = "" THEN "styled" ELSE "style_raised"
    /\ UNCHANGED <<pipelineVars, schedVars, copyVars, unit_args>>

StyleSpec == StyleInit /\ [][SelectBestStyles]_vars

\* --------------------------------------------------- image generation
\* ImagenGenerator.generate and DoubaoImageGenerator.generate, the same loop
\* in both: one step per generation call.
MaxImageCalls == 3   \* number_of_images of a generator

\* what one pass of the loop meets: image bytes written, no data in the
\* response, an HTTP status error, any other exception, bytes whose write fails
CallOutcomes == {"bytes", "none", "http_error", "exception", "write_error"}

ImageArgs ==
    {[api_type |-> t, number_of_images |-> n, outcomes |-> o, mkdir_ok |-> d] :
        t \in {"gemini", "doubao"}, n \in 0..MaxImageCalls,
        o \in SeqsUpTo(CallOutcomes, MaxImageCalls), d \in BOOLEAN}

NoImages == [i |-> 0, calls |-> 0, images |-> <<>>, raised |-> ""]

\* variant: the first failed call ends the loop
after_failed_call_giving_up(i, n) == n

\* a call without an image: continue, or the except clauses, then the next i
after_failed_call(i, n) == i + 1

ImageInit ==
    /\ PipelineInit /\ history_file = AbsentFile
    /\ SchedulerOff /\ CopywriterOff
    /\ unit_pc = "image_start"
    /\ \E a \in ImageArgs :
        /\ Len(a.outcomes) = a.number_of_images
        /\ unit_args = a
    /\ unit_result = NoImages

\* output_dir.mkdir(parents=True, exist_ok=True), outside the try block
Mkdir ==
    /\ unit_pc = "image_start"
    /\ IF unit_args.mkdir_ok
       THEN unit_pc' = "image_loop" /\ UNCHANGED unit_result
       ELSE /\ unit_pc' = "image_raised"
            /\ unit_result' = [unit_result EXCEPT !.raised = "OSError"]
    /\ UNCHANGED <<pipelineVars, schedVars, copyVars, unit_args>>

\* one pass of: for i in range(self._number_of_images)
GenerateSingle ==
    /\ unit_pc = "image_loop"
    /\ unit_result.i < unit_args.number_of_images
    /\ LET i == unit_result.i
           outcome == unit_args.outcomes[i + 1]
       IN unit_result' =
            IF outcome = "bytes"
            THEN [unit_result EXCEPT !.i = i + 1, !.calls = @ + 1,
                                     !.images = Append(@, i)]
            ELSE [unit_result EXCEPT
                    !.i = after_failed_call(i, unit_args.number_of_images),
                    !.calls = @ + 1]
    /\ UNCHANGED <<pipelineVars, schedVars, copyVars, unit_args, unit_pc>>

\* if not images: raise RuntimeError; return tuple(images)
GenerateEnds ==
    /\ unit_pc = "image_loop"
    /\ unit_result.i >= unit_args.number_of_images
    /\ IF unit_result.images = <<>>
       THEN /\ unit_pc' = "image_raised"
            /\ unit_result' = [unit_result EXCEPT !.raised = "RuntimeError"]
       ELSE unit_pc' = "image_returned" /\ UNCHANGED unit_result
    /\ UNCHANGED <<pipelineVars, schedVars, copyVars, unit_args>>

ImageNext ==
    \/ Mkdir
    \/ GenerateSingle
    \/ GenerateEnds

ImageSpec == ImageInit /\ [][ImageNext]_vars

\* ------------------------------------------------- history file contents
\* _load_published_ids and _save_history over what json.loads can give back
\* for a history file a user or another program has touched.
MaxEntries == 2   \* elements of a history array

\* one element of a JSON array: number, null, string, array or object;
\* has_id is the value of: "article_id" in entry (a substring test for a
\* string, a membership test for an array, a key test for an object)
Elements ==
    {[type |-> t, has_id |-> FALSE, article_id |-> ""] :
        t \in {"number", "null", "string", "array", "object"}}
    \cup {[type |-> t, has_id |-> TRUE, article_id |-> ""] : t \in {"string", "array"}}
    \cup {[type |-> "object", has_id |-> TRUE, article_id |-> a] : a \in {"a1", "a2"}}

\* what the file holds: nothing (absent), text that is no JSON, a JSON
\* scalar, a JSON object (has_id: one of its keys contains "article_id"), or
\* a JSON array
FileContents ==
    {[kind |-> k, has_id |-> FALSE, entries |-> <<>>] :
        k \in {"absent", "invalid", "number", "null", "string"}}
    \cup {[kind |-> "object", has_id |-> h, entries |-> <<>>] : h \in BOOLEAN}
    \cup {[kind |-> "array", has_id |-> FALSE, entries |-> e] :
            e \in SeqsUpTo(Elements, MaxEntries)}

RECURSIVE ids_of_entries(_)
\* {entry["article_id"] for entry in data if "article_id" in entry} over a
\* list: <<raised, ids>>
ids_of_entries(entries) ==
    IF entries = <<>> THEN <<"", {}>>
    ELSE LET entry == Head(entries)
             rest == ids_of_entries(Tail(entries))
         IN IF entry.type \in {"number", "null"} THEN <<"TypeError", {}>>
            ELSE IF ~entry.has_id THEN rest
            ELSE IF entry.type \in {"string", "array"} THEN <<"TypeError", {}>>
            ELSE IF rest[1] # "" THEN rest
            ELSE <<"", {entry.article_id} \cup rest[2]>>

\* _load_published_ids: <<raised, ids>>; only JSONDecodeError and KeyError
\* are caught
json_load_published_ids(content) ==
    IF content.kind \in {"absent", "invalid"} THEN <<"", {}>>
    ELSE IF content.kind \in {"number", "null"} THEN <<"TypeError", {}>>
    ELSE IF content.kind = "string" THEN <<"", {}>>
    ELSE IF content.kind = "object"
    THEN IF content.has_id THEN <<"TypeError", {}>> ELSE <<"", {}>>
    ELSE ids_of_entries(content.entries)

NewEntry == [type |-> "object", has_id |-> TRUE, article_id |-> "new"]

\* _save_history: <<raised, content written>>; only JSONDecodeError is caught
json_save_history(content) ==
    IF content.kind \in {"absent", "invalid"}
    THEN <<"", [kind |-> "array", has_id |-> FALSE, entries |-> <<NewEntry>>]>>
    ELSE IF content.kind = "array"
    THEN <<"", [content EXCEPT !.entries = Append(@, NewEntry)]>>
    ELSE <<"AttributeError", content>>

HistoryInit ==
    /\ PipelineInit /\ history_file = AbsentFile
    /\ SchedulerOff /\ CopywriterOff
    /\ unit_pc \in {"history_load", "history_save"}
    /\ \E content \in FileContents : unit_args = [content |-> content]
    /\ unit_result = [raised |-> "", ids |-> {}, written |-> unit_args.content]

\* collect_all reads the history; an exception ends the run
LoadPublishedIds ==
    /\ unit_pc = "history_load"
    /\ LET r == json_load_published_ids(unit_args.content)
       IN /\ unit_result' = [unit_result EXCEPT !.raised = r[1], !.ids = r[2]]
          /\ unit_pc' = IF r[1] = "" THEN "history_loaded" ELSE "history_load_raised"
    /\ UNCHANGED <<pipelineVars, schedVars, copyVars, unit_args>>

\* Pipeline.run after a Published outcome, or a call of _save_history alone
SaveHistoryFile ==
    /\ unit_pc \in {"history_loaded", "history_save"}
    /\ LET r == json_save_history(unit_args.content)
       IN /\ unit_result' = [unit_result EXCEPT !.raised = r[1], !.written = r[2]]
          /\ unit_pc' = IF r[1] = "" THEN "history_saved" ELSE "history_save_raised"
    /\ UNCHANGED <<pipelineVars, schedVars, copyVars, unit_args>>

HistoryNext ==
    \/ LoadPublishedIds
    \/ SaveHistoryFile

HistorySpec == HistoryInit /\ [][HistoryNext]_vars

\* ------------------------------------------- history store over the runs
\* The history file over a sequence of appends and reads: what each
\* _save_history call leaves in the file and what the next
\* _load_published_ids call finds there.
MaxAppends == 2   \* _save_history calls looked at

\* the file at the start: absent, a JSON object, an array of entry objects,
\* or text that is no JSON: empty, or an array of entry objects that was cut
\* short or has a stray comma, so that json.loads raises on it although the
\* text of its entries is there
StoreContents ==
    {c \in FileContents :
        /\ c.kind \in {"absent", "invalid", "object", "array"}
        /\ \A k \in 1..Len(c.entries) : c.entries[k].type = "object"}
    \cup {[kind |-> "invalid", has_id |-> FALSE, entries |-> e] :
            e \in {t \in SeqsUpTo(Elements, MaxEntries) :
                     \A k \in 1..Len(t) : t[k].type = "object"}}

\* variant: the entry is written with the key "item_id"
EntryFor_item_id_key(article_id) ==
    [type |-> "object", has_id |-> FALSE, article_id |-> ""]

\* {"article_id": article_id, "run_id": run_id, "published_at": ...}
EntryFor(article_id) == [type |-> "object", has_id |-> TRUE, article_id |-> article_id]

\* what open(..., "w") leaves when the write after it fails: an empty file
TruncatedFile == [kind |-> "invalid", has_id |-> FALSE, entries |-> <<>>]

\* _save_history for one article: <<raised, content of the file afterwards>>.
\* failure: "none", "before_write" (mkdir, read_text or open raises) or
\* "during_write" (write_text has truncated the file and then raises)
append_history(content, article_id, failure) ==
    IF failure = "before_write" THEN <<"OSError", content>>
    ELSE IF content.kind \notin {"absent", "invalid", "array"}
    THEN <<"AttributeError", content>>
    ELSE IF failure = "during_write" THEN <<"OSError", TruncatedFile>>
    ELSE LET history == IF content.kind = "array" THEN content.entries ELSE <<>>
         IN <<"", [kind |-> "array", has_id |-> FALSE,
                   entries |-> Append(history, EntryFor(article_id))]>>

StoreInit ==
    /\ PipelineInit /\ history_file = AbsentFile
    /\ SchedulerOff /\ CopywriterOff
    /\ unit_pc = "store_idle"
    /\ \E content \in StoreContents : unit_args = [content |-> content]
    /\ unit_result = [raised |-> "", ids |-> {}, written |-> unit_args.content,
                      appends |-> 0, last_appended |-> ""]

\* a run with outcome Published reaches _save_history
StoreAppend ==
    /\ unit_pc \in {"store_idle", "store_read"}
    /\ unit_result.appends < MaxAppends
    /\ \E article_id \in {"a1", "a3"},
          failure \in {"none", "before_write", "during_write"} :
        LET r == append_history(unit_result.written, article_id, failure)
        IN unit_result' = [unit_result EXCEPT
                             !.raised = r[1], !.written = r[2],
                             !.appends = @ + 1,
                             !.last_appended = IF r[1] = "" THEN article_id ELSE ""]
    /\ unit_pc' = "store_appended"
    /\ UNCHANGED <<pipelineVars, schedVars, copyVars, unit_args>>

\* the collection pass of the next run reads the file
StoreRead ==
    /\ unit_pc \in {"store_idle", "store_appended"}
    /\ LET r == json_load_published_ids(unit_result.written)
       IN unit_result' = [unit_result EXCEPT !.raised = r[1], !.ids = r[2]]
    /\ unit_pc' = "store_read"
    /\ UNCHANGED <<pipelineVars, schedVars, copyVars, unit_args>>

StoreNext ==
    \/ StoreAppend
    \/ StoreRead

StoreSpec == StoreInit /\ [][StoreNext]_vars

\* ------------------------------------------- scheduler with real runs
\* run_scheduler with Pipeline.run in full instead of in outline: the loop
\* hands its dry_run argument to every run it starts.
\* variant: the run is started without the option
run_option_dropped(scheduler_dry_run) == FALSE

\* result = await pipeline.run(dry_run=dry_run)
run_option(scheduler_dry_run) == scheduler_dry_run

\* run_scheduler(dry_run=...) at 07:00 with the default times and no jitter;
\* the history file as it is at start-up is kept for comparison
LoopInit ==
    /\ PipelineInit
    /\ CopywriterOff
    /\ unit_pc = "scheduler"
    /\ \E scheduler_dry_run \in BOOLEAN : unit_args = [dry_run |-> scheduler_dry_run]
    /\ unit_result = [history_at_start |-> history_file]
    /\ sched_pc = "compute"
    /\ now = 420
    /\ schedule_times = DEFAULT_TIMES
    /\ jitter_minutes = 0
    /\ base = 0 /\ next_time = 0
    /\ sched_run_count = 0 /\ run_phase = "none" /\ last_outcome = ""
    /\ started = <<>>

\* Pipeline.run is entered by the run the loop has started
LoopStartRun ==
    /\ sched_pc = "await" /\ run_phase = "stages"
    /\ run_count < sched_run_count
    /\ StartRun

\* the publisher is built with the option the loop passed
LoopPublishStart ==
    /\ PublishStart
    /\ dry_run' = run_option(unit_args.dry_run)

\* the awaited run returns or raises
LoopRunEnds ==
    /\ sched_pc = "await"
    /\ pc \in {"returned", "raised"}
    /\ run_count = sched_run_count
    /\ last_outcome' = pc
    /\ run_phase' = "none"
    /\ sched_pc' = after_run(pc)
    /\ UNCHANGED <<pipelineVars, copyVars, unitVars, now, schedule_times, jitter_minutes,
                   base, next_time, sched_run_count, started>>

\* the Pipeline object of the finished run is let go when the try block ends
LoopFinish == sched_pc = "cooldown" /\ Finish

\* await asyncio.sleep(60), back to the loop head
LoopCooldown == pc = "idle" /\ Cooldown

LoopNext ==
    \/ Compute
    \/ Sleep
    \/ StartPipeline
    \/ LoopStartRun
    \/ FetchSources
    \/ Merge
    \/ Select
    \/ StyleSelect
    \/ ImageGenerate
    \/ CopyGenerate
    \/ LoopPublishStart
    \/ Initialize
    \/ Notify
    \/ ToolsCall
    \/ CopyAssets
    \/ SaveRunOutput
    \/ SaveHistory
    \/ LoopRunEnds
    \/ LoopFinish
    \/ LoopCooldown

LoopSpec == LoopInit /\ [][LoopNext]_vars

\* ------------------------------------------------------------- claims
RecordedIds ==
    IF history_file.kind = "valid"
    THEN {history_file.entries[i].article_id : i \in 1..Len(history_file.entries)}
    ELSE {}

EntriesOfThisRun ==
    {i \in 1..Len(history_file.entries) : history_file.entries[i].run_id = run_id}

RequestsOfCall(c) == SelectSeq(requests, LAMBDA r : r.call = c)

\* C1: over runs that share one history file and each return or raise, no
\* item id is the subject of more than one Published outcome.
C1_AtMostOncePublish ==
    \A i \in 1..Len(published), j \in 1..Len(published) :
        i # j => published[i].article_id # published[j].article_id

\* C2: a run that returns normally has appended a history entry iff its
\* outcome is Published, the entry carries the id selected in that run, and
\* nothing else ever changes the history file.
C2_HistoryAppendedIffPublished ==
    [][ /\ (pc' = "returned" /\ pc # "returned") =>
             IF publish_result.status = PUBLISHED
             THEN /\ history_file'.kind = "valid"
                  /\ Len(history_file'.entries) = Len(history_file.entries) + 1
                  /\ history_file'.entries[Len(history_file'.entries)]
                        = [article_id |-> selected_article, run_id |-> run_id]
             ELSE history_file' = history_file
        /\ history_file' # history_file =>
             pc' = "returned" /\ publish_result.status = PUBLISHED ]_vars

C2_Witness ==
    /\ pc = "returned"
    /\ publish_result.status = PUBLISHED
    /\ Len(history_file.entries) = 2
    /\ history_file.entries[2].article_id = selected_article

\* C3: once publish has resolved (Published, Failed or DryRun) the run goes on
\* to persist its artifacts; a run that returns has written all three files
\* with the outcome it got; after publish resolved a run raises only from a
\* persistence step, and a Failed outcome is never itself the cause.
C3_ArtifactsPersisted ==
    /\ publish_result.status # "none" =>
         /\ publish_result.status \in {PUBLISHED, FAILED, DRY_RUN}
         /\ pc \in {"save_output", "save_history", "returned", "raised"}
    /\ pc \in {"save_history", "returned"} =>
         /\ publish_result.status # "none"
         /\ out_dir = ArtifactFiles
         /\ out_status = publish_result.status
    /\ (pc = "raised" /\ publish_result.status # "none") =>
         raised_in \in {"save_run_output", "save_history"}
    /\ (pc = "raised" /\ publish_result.status \in {FAILED, DRY_RUN}) =>
         raised_in = "save_run_output"

C3_Witness ==
    /\ pc = "returned"
    /\ publish_result.status = FAILED
    /\ publish_result.error_message = "http_error"
    /\ out_dir = ArtifactFiles
    /\ out_status = FAILED

\* C4: the candidates collect_all returns hold no id recorded in the history
\* file, whichever source offers it and however often; an offered id that is
\* not recorded is dropped only by the truncation to max_candidates.
C4_IdempotentDedup ==
    LET offered == Range(rss_articles) \cup Range(news_articles)
        fresh == {a.id : a \in {o \in offered : o.id \notin RecordedIds}}
        out == {articles[i].id : i \in 1..Len(articles)}
    IN (pc = "select" \/ (pc = "raised" /\ raised_in = "collect")) =>
        /\ out \cap RecordedIds = {}
        /\ out \subseteq fresh
        /\ Cardinality(fresh) <= MaxCandidates => out = fresh
        /\ Cardinality(fresh) > MaxCandidates => Cardinality(out) = MaxCandidates

C4_Witness ==
    /\ pc = "select"
    /\ \E a \in Range(rss_articles), b \in Range(news_articles) :
        a.id = b.id /\ a.id \in RecordedIds
    /\ Len(rss_articles) = 2 /\ rss_articles[1] = rss_articles[2]
    /\ articles # <<>>

\* C5: in dry-run mode publish checks no login, sends no request, copies no
\* asset and returns DryRun with an empty error message.
C5_DryRunPurity ==
    (dry_run \/ cfg_dry_run) =>
        /\ requests = <<>>
        /\ init_headers = <<>>
        /\ call_no = 0
        /\ login_result = "none"
        /\ copied = 0
        /\ publish_result = PublishResult(DRY_RUN, "", <<>>)

C5_Witness ==
    /\ pc = "returned"
    /\ cfg_dry_run /\ ~dry_run
    /\ images_host_dir /\ images = NumberOfImages
    /\ publish_result.status = DRY_RUN

\* C6: when the target reports not-logged-in, publish returns Failed with the
\* login-required message, sends no publish_content call, copies no asset,
\* and the run appends no history entry.
C6_NotLoggedInFails ==
    (status_report.seen /\ status_report.text \in NotLoggedInTexts) =>
        /\ login_result = "false"
        /\ publish_result = PublishResult(FAILED, LoginRequiredMsg, <<>>)
        /\ copied = 0
        /\ \A i \in 1..Len(requests) : requests[i].tool # "publish_content"
        /\ EntriesOfThisRun = {}

\* C7: publish never propagates an exception: every failure after the
\* dry-run check, the asset copy included, gives Failed with a non-empty
\* error message.
C7_PublishNeverRaises ==
    /\ raised_in # "publish"
    /\ publish_result.status = FAILED => publish_result.error_message # ""

\* C8: check_login never raises and returns false on every failure of the
\* three session steps: it is true only after a complete session whose
\* tools/call returned a status text.
C8_CheckLoginNeverRaises ==
    LET inLoginCall == tool_name = "check_login_status"
                       /\ pc \in {"initialize", "notify", "tools_call"}
    IN /\ (call_no >= 1 /\ ~inLoginCall) => login_result \in {"true", "false"}
       /\ (pc = "raised" /\ raised_in = "publish") => login_result = "true"
       /\ login_result = "true" =>
            /\ init_headers[1] \in Tokens
            /\ Len(RequestsOfCall(1)) = 3
            /\ status_report.seen

C8_Witness ==
    /\ login_result = "false"
    /\ Len(requests) = 2
    /\ requests[2].method = "notifications/initialized"
    /\ pc = "save_output"

\* C9: in every logical call the requests go out in the order initialize,
\* notifications/initialized, tools/call; the last two carry the token the
\* initialize response of the same call gave, and none is sent without one.
C9_SessionOrdering ==
    \A i \in 1..Len(requests) :
        LET r == requests[i]
        IN /\ r.call \in 1..Len(init_headers)
           /\ r.method = "initialize" =>
                /\ r.session = ""
                /\ i > 1 => requests[i - 1].call < r.call
           /\ r.method = "notifications/initialized" =>
                /\ i > 1
                /\ requests[i - 1].method = "initialize"
                /\ requests[i - 1].call = r.call
                /\ init_headers[r.call] \in Tokens
                /\ r.session = init_headers[r.call]
           /\ r.method = "tools/call" =>
                /\ i > 1
                /\ requests[i - 1].method = "notifications/initialized"
                /\ requests[i - 1].call = r.call
                /\ init_headers[r.call] \in Tokens
                /\ r.session = init_headers[r.call]

C9_Witness ==
    /\ Len(requests) = 6
    /\ init_headers = <<"s1", "s2">>
    /\ requests[6].method = "tools/call"
    /\ requests[6].tool = "publish_content"

\* C10: when the initialize response has no session header, or an empty one,
\* the logical call fails and sends neither the notification nor tools/call.
C10_MissingSessionFailsCall ==
    \A c \in 1..Len(init_headers) :
        init_headers[c] \in {"<absent>", ""} =>
            /\ \A i \in 1..Len(requests) :
                 requests[i].call = c => requests[i].method = "initialize"
            /\ c = 1 => login_result = "false"
            /\ c = 2 => publish_result = PublishResult(FAILED, "no_session_id", <<>>)

C10_Witness ==
    /\ Len(init_headers) = 2
    /\ init_headers[1] \in Tokens
    /\ init_headers[2] = "<absent>"
    /\ pc = "returned"

\* C11: sessions are never reused. Every logical call opens with its own
\* initialize and sends exactly one; a request that carries a session carries
\* the one its own call's initialize received; a run makes at most two
\* logical calls, the login check first and the publish second; and once the
\* publish_content tools/call has been sent the run has performed exactly two
\* complete lifecycles (initialize, notification, tools/call), six requests.
C11_SessionsNeverReused ==
    /\ call_no <= 2
    /\ \A i \in 1..Len(requests), j \in 1..Len(requests) :
         i < j => requests[i].call <= requests[j].call
    /\ \A c \in 1..call_no :
         LET rc == RequestsOfCall(c)
         IN /\ rc # <<>> => rc[1].method = "initialize"
            /\ \A i \in 2..Len(rc) : rc[i].method # "initialize"
            /\ \A i \in 1..Len(rc) :
                 /\ rc[i].session # "" =>
                      c \in DOMAIN init_headers /\ rc[i].session = init_headers[c]
                 /\ rc[i].tool # "" =>
                      rc[i].tool = IF c = 1 THEN "check_login_status"
                                   ELSE "publish_content"
    /\ (\E i \in 1..Len(requests) : requests[i].tool = "publish_content") =>
         /\ Len(requests) = 6
         /\ \A c \in 1..2 :
              [i \in 1..3 |-> RequestsOfCall(c)[i].method] =
                  <<"initialize", "notifications/initialized", "tools/call">>

\* a published run whose two sessions received different tokens
C11_Witness ==
    /\ publish_result.status = PUBLISHED
    /\ Len(requests) = 6
    /\ init_headers[1] # init_headers[2]
    /\ requests[6].session = init_headers[2]

\* C12: when the answer to a tools/call carries an "error" member, a
\* publish_content call ends in a Failed outcome whose message holds that
\* payload and nothing is published by the run; a check_login_status call
\* makes check_login answer false.
C12_ErrorFieldSurfaced ==
    result_error # NoError =>
        IF tool_name = "check_login_status"
        THEN /\ login_result = "false"
             /\ publish_result.status = FAILED
        ELSE /\ publish_result =
                    PublishResult(FAILED, mcp_error_message(result_error), <<>>)
             /\ \A p \in ErrorPayloads :
                    p # result_error =>
                        publish_result.error_message # mcp_error_message(p)
             /\ \A i \in 1..Len(published) : published[i].run_id # run_id

\* the publish_content call was answered with an error object
C12_Witness ==
    /\ result_error \in ErrorPayloads
    /\ tool_name = "publish_content"
    /\ login_result = "true"
    /\ pc = "save_output"

\* C18: a run that meets a fatal condition (the configuration cannot be
\* loaded, no candidate after deduplication, selection raises, style
\* selection raises, image generation is required and yields no image, copy
\* generation raises) raises, has sent no request to the publish target, has
\* no publish outcome and leaves the history file as it was; and no run gets
\* past one of these stages without its output.
PrePublishStages == {"config", "collect", "select", "style", "image", "copy"}
PrePublishPcs == {"idle", "collect", "merge", "select", "style", "image", "copy"}
PastImagePcs ==
    {"copy", "publish", "initialize", "notify", "tools_call", "copy_assets",
     "save_output", "save_history", "returned"}
C18_FatalState ==
    /\ raised_in \in PrePublishStages =>
         /\ pc = "raised"
         /\ requests = <<>> /\ call_no = 0
         /\ publish_result = NoResult
         /\ out_dir = <<>>
         /\ EntriesOfThisRun = {}
         /\ \A i \in 1..Len(published) : published[i].run_id # run_id
    /\ pc \in {"select", "style"} => articles # <<>>
    /\ pc \in PastImagePcs \ {"copy"} => copywrite # ""
    /\ (pc \in PastImagePcs \/ raised_in \notin PrePublishStages \cup {""}) =>
         /\ selected_article # ""
         /\ skip_images \/ images >= 1
C18_FatalConditionsStopRun ==
    /\ []C18_FatalState
    /\ [][(pc \in PrePublishPcs \/ raised_in' \in PrePublishStages)
            => history_file' = history_file]_vars

\* the second run raises in collect because the only article offered is in
\* the history file already
C18_Witness ==
    /\ pc = "raised" /\ raised_in = "collect"
    /\ history_file.kind = "valid" /\ Len(history_file.entries) = 1
    /\ run_count = 2

\* C19: the stages of one run start in the order collect, select, style
\* selection, image generation (or its skip), copy generation, publish; each
\* position is entered only from its predecessor, so no stage runs twice, and
\* a stage that raises ends the run before every later stage.
PublishPcs == {"publish", "initialize", "notify", "tools_call", "copy_assets"}
PredecessorsOf(position) ==
    CASE position = "collect" -> {"idle"}
      [] position = "merge" -> {"collect"}
      [] position = "select" -> {"merge"}
      [] position = "style" -> {"select"}
      [] position = "image" -> {"style"}
      [] position = "copy" -> {"image"}
      [] position = "publish" -> {"copy"}
      [] position \in PublishPcs \ {"publish"} -> PublishPcs
      [] position = "save_output" -> PublishPcs
      [] position = "save_history" -> {"save_output"}
      [] position = "returned" -> {"save_output", "save_history"}
      [] position = "raised" ->
            PrePublishPcs \cup {"copy_assets", "save_output", "save_history"}
      [] position = "idle" -> {"returned", "raised"}
C19_StageOrder ==
    /\ [](raised_in # "" <=> pc = "raised")
    /\ [](pc = "style" => selected_article # "")
    /\ [](pc = "publish" => copywrite = selected_article /\ copywrite # "")
    /\ [][pc' # pc => pc \in PredecessorsOf(pc')]_vars

\* a run went through every stage, image generation skipped, and returned
C19_Witness ==
    /\ pc = "returned"
    /\ skip_images
    /\ publish_result.status = PUBLISHED

\* C13: with zero jitter _next_run gives the earliest instant after now among
\* today's and tomorrow's occurrences of the configured times (07:00 gives
\* 08:00 today, 10:00 gives 12:00 today, 21:00 gives 08:00 tomorrow for the
\* default times).
SlotsOfTodayAndTomorrow(local_now, times) ==
    LET today == (local_now \div DayMinutes) * DayMinutes
    IN {today + k * DayMinutes + times[i] : k \in {0, 1}, i \in 1..Len(times)}
EarliestAfter(local_now, times) ==
    LET later == {dt \in SlotsOfTodayAndTomorrow(local_now, times) : dt > local_now}
    IN CHOOSE dt \in later : \A other \in later : dt <= other
C13_NextRunIsEarliest ==
    (sched_pc = "sleep" /\ jitter_minutes = 0) =>
        next_time = EarliestAfter(now, schedule_times)

\* C14: an exception of a run never leaves the loop, the loop never exits,
\* and after every run, failed or not, another run is eventually started.
C14_LoopGoesOnAfterEveryRun ==
    /\ [](sched_pc \in {"compute", "sleep", "start", "await", "cooldown"})
    /\ [](last_outcome = "raised" =>
            sched_pc \in {"cooldown", "compute", "sleep", "start", "await"})
    /\ \A n \in 1..(MaxSchedRuns - 1) :
         (sched_run_count = n) ~> (sched_run_count = n + 1)

\* a run is in progress that was started after the previous run raised
C14_Witness ==
    /\ last_outcome = "raised"
    /\ sched_run_count = 2
    /\ sched_pc = "await" /\ run_phase = "stages"

\* C15: at most one run is in progress: while the loop computes the next
\* run time, sleeps, starts a run or cools down, no run is in progress, the
\* previous one having returned or raised, history append included.
C15_RunsNeverOverlap ==
    /\ sched_pc \in {"compute", "sleep", "start", "cooldown"} =>
         /\ run_phase = "none"
         /\ sched_run_count >= 1 => last_outcome \in {"returned", "raised"}
    /\ run_phase # "none" => sched_pc = "await"
    /\ Len(started) = sched_run_count

\* the second run is at its history append while the loop awaits it
C15_Witness ==
    /\ sched_run_count = 2
    /\ sched_pc = "await"
    /\ run_phase = "history"

\* C16: no nominal slot is the base of more than one started run, whatever
\* the jitter bound and the jitter samples.
C16_OneRunPerSlot ==
    \A i \in 1..Len(started), j \in 1..Len(started) :
        i # j => started[i] # started[j]

\* C17: no slot is starved: once the clock is past the jitter window of an
\* occurrence of a configured time that lies after the first started slot,
\* a run with that occurrence as its base has been started.
C17_EverySlotGetsARun ==
    \A d \in 0..(now \div DayMinutes), i \in 1..Len(schedule_times) :
        LET slot == d * DayMinutes + schedule_times[i]
        IN (started # <<>> /\ slot > started[1] /\ slot + jitter_minutes < now)
            => \E k \in 1..Len(started) : started[k] = slot

\* C20: whatever title, body and hashtag list the provider answered, the
\* copy result has len(title) <= title_max_length, len(body) <=
\* body_max_length and len(hashtags) <= hashtag_count; each field is a prefix
\* of what was answered (title and body with the surrounding whitespace
\* removed), and is all of it when that is within the limit.
IsPrefix(s, t) == Len(s) <= Len(t) /\ s = SubSeq(t, 1, Len(s))
WithinLimit(result, answered, limit) ==
    /\ Len(result) <= limit
    /\ IsPrefix(result, answered)
    /\ Len(answered) <= limit => result = answered
C20_TruncationInvariants ==
    copy_pc = "done" =>
        /\ WithinLimit(copy_result.title, Strip(get(data, "title", <<>>)),
                       profile.title_max_length)
        /\ WithinLimit(copy_result.body, Strip(get(data, "body", <<>>)),
                       profile.body_max_length)
        /\ WithinLimit(copy_result.hashtags, get(data, "hashtags", <<>>),
                       profile.hashtag_count)

\* an answer whose title, with its leading space removed, is still too long
\* and whose hashtags are too many: both were cut to the limit
C20_Witness ==
    /\ copy_pc = "done"
    /\ "title" \in DOMAIN data /\ "hashtags" \in DOMAIN data
    /\ profile.title_max_length >= 1
    /\ Len(Strip(data["title"])) > profile.title_max_length
    /\ Head(data["title"]) = " "
    /\ Len(copy_result.title) = profile.title_max_length
    /\ Len(data["hashtags"]) > profile.hashtag_count
    /\ Len(copy_result.hashtags) = profile.hashtag_count

\* C23: with the skip-images option set the image stage gives an empty
\* asset list, no generation call is made, the empty list does not end the
\* run, and the run goes on to copy generation and publish with no asset.
C23_SkipImages ==
    skip_images =>
        /\ images = 0 /\ generator_calls = 0 /\ copied = 0
        /\ raised_in # "image"
        /\ pc \in PastImagePcs \cup {"raised"}

\* a run with the option set has published with no asset
C23_Witness ==
    /\ skip_images /\ images = 0 /\ generator_calls = 0
    /\ copywrite # ""
    /\ publish_result.status = PUBLISHED
    /\ Len(requests) = 6

\* C27: the candidates collect_all returns have pairwise different ids, are
\* at most max_candidates, are ordered newest first, and are the
\* max_candidates newest of what the sources gave once duplicates and the
\* published are dropped: a published item takes no place.
RemainingIds ==
    {a.id : a \in Range(rss_articles \o news_articles)} \ RecordedIds
PublishedAtOfId(id) ==
    (CHOOSE a \in Range(rss_articles \o news_articles) : a.id = id).published_at
C27_CollectAllOutput ==
    pc = "select" =>
        LET chosen == {articles[i].id : i \in 1..Len(articles)}
        IN /\ Cardinality(chosen) = Len(articles)
           /\ Len(articles) <= MaxCandidates
           /\ \A i \in 1..Len(articles), j \in 1..Len(articles) :
                i < j => articles[i].published_at >= articles[j].published_at
           /\ chosen \subseteq RemainingIds
           /\ Len(articles) =
                IF Cardinality(RemainingIds) <= MaxCandidates
                THEN Cardinality(RemainingIds) ELSE MaxCandidates
           /\ \A left \in RemainingIds \ chosen, i \in 1..Len(articles) :
                PublishedAtOfId(left) <= articles[i].published_at

\* the newest of three offered items is in the history file, and the two
\* others fill the candidate list
C27_Witness ==
    /\ pc = "select"
    /\ make_article_id("u1") \in RecordedIds
    /\ \E a \in Range(rss_articles \o news_articles) : a.url = "u1"
    /\ Len(articles) = MaxCandidates
    /\ Cardinality(RemainingIds) = 2

\* C29: the id of an item is a function of its url alone: every item of
\* either source carries make_article_id of its url, so items of the two
\* sources and of different runs that share a url share the id, and an id in
\* the history file is the id its url gets again.
CollectedItems == Range(rss_articles) \cup Range(news_articles) \cup Range(articles)
C30_PublishNeverRetried ==
    /\ Cardinality({i \in 1..Len(requests) :
                      requests[i].method = "tools/call"
                      /\ requests[i].tool = "publish_content"}) <= 1
    /\ Cardinality({requests[i].call : i \in 1..Len(requests)}) <= 2
    /\ publish_result.status = FAILED => pc \in {"save_output", "returned", "raised"}

\* the publish_content call failed and the run returned after six requests
C30_Witness ==
    /\ publish_result.status = FAILED
    /\ tool_name = "publish_content"
    /\ Len(requests) = 6
    /\ pc = "returned"

\* C24: for a non-empty candidate tuple and an integer selected_index in the
\* answer, select returns one of the candidates: the one at the index when
\* it lies in [0, len), the first one when it is too large or negative; the
\* index never makes select raise.
C24_SelectionInvariant ==
    (/\ unit_pc \in {"selected", "raised", "copied"}
     /\ unit_args.articles # <<>>
     /\ unit_args.answer.kind = "object" /\ unit_args.answer.has_index
     /\ unit_args.answer.category # "<array>") =>
        LET n == Len(unit_args.articles)
            i == unit_args.answer.selected_index
        IN /\ unit_result.raised = ""
           /\ unit_result.selected_article =
                unit_args.articles[IF i >= 0 /\ i < n THEN i + 1 ELSE 1].id

\* C25: the category of a selection result is one of the five enum members:
\* a recognised string gives its own member, any other string and a missing
\* field give INGREDIENT_ANALYSIS; the copy result carries the same category.
C25_CategoryClosed ==
    /\ unit_pc \in {"selected", "copied"} =>
         /\ unit_result.category \in ContentCategory
         /\ unit_args.answer.category \in DOMAIN CATEGORY_MAP =>
              unit_result.category = CATEGORY_MAP[unit_args.answer.category]
         /\ unit_args.answer.category \in {"<missing>", "some other text"} =>
              unit_result.category = "INGREDIENT_ANALYSIS"
    /\ unit_pc = "copied" => unit_result.copy_category = unit_result.category
    /\ \A c \in DOMAIN CATEGORY_MAP, d \in DOMAIN CATEGORY_MAP :
         c # d => CATEGORY_MAP[c] # CATEGORY_MAP[d]

\* the answer named an unknown category and the copy result carries the default
C25_Witness ==
    /\ unit_pc = "copied"
    /\ unit_args.answer.category = "some other text"
    /\ unit_result.copy_category = "INGREDIENT_ANALYSIS"

\* C26: select called with the empty tuple raises and has not called the
\* provider; Pipeline.run never makes that call, as it ends the run after
\* the collect stage when there is no candidate.
C26_EmptyCandidates ==
    /\ (unit_args.articles = <<>> /\ unit_pc \notin {"collected", "select", "off"}) =>
         IF unit_args.via = "pipeline" THEN unit_pc = "run_raised"
         ELSE /\ unit_pc = "raised"
              /\ unit_result.raised = "ValueError: empty"
              /\ unit_result.provider_calls = 0
    /\ (unit_pc = "select" /\ unit_args.via = "pipeline") => unit_args.articles # <<>>
    /\ unit_pc \in {"selected", "copied"} => unit_result.provider_calls = 1

\* a direct call with the empty tuple has raised before any provider call
C26_Witness ==
    /\ unit_pc = "raised"
    /\ unit_args.via = "direct" /\ unit_args.articles = <<>>
    /\ unit_args.answer.kind = "object"
    /\ unit_result.provider_calls = 0

\* C21: with both catalogs non-empty, select_best_styles returns for every
\* response, on each axis by itself, the catalog entry whose id the response
\* names, or else the first entry of the catalog, and never raises.
C21_StyleFallback ==
    (/\ unit_pc \in {"styled", "style_raised"}
     /\ unit_args.copywrite_styles # <<>> /\ unit_args.image_styles # <<>>) =>
        LET wanted_copy == IF unit_args.response.kind = "object"
                           THEN unit_args.response.copywrite_style_id ELSE "<missing>"
            wanted_img == IF unit_args.response.kind = "object"
                          THEN unit_args.response.image_style_id ELSE "<missing>"
        IN /\ unit_result.raised = ""
           /\ unit_result.copy_style =
                IF wanted_copy \in Range(unit_args.copywrite_styles) THEN wanted_copy
                ELSE unit_args.copywrite_styles[1]
           /\ unit_result.img_style =
                IF wanted_img \in Range(unit_args.image_styles) THEN wanted_img
                ELSE unit_args.image_styles[1]

\* the zero-based numbers of the first n calls that gave image bytes, in
\* call order
SuccessfulCalls(outcomes, n) ==
    LET RECURSIVE Upto(_)
        Upto(k) == IF k = 0 THEN <<>>
                   ELSE IF outcomes[k] = "bytes" THEN Append(Upto(k - 1), k - 1)
                   ELSE Upto(k - 1)
    IN Upto(n)

\* C22: once the output directory exists, generate makes all N calls
\* whatever the earlier ones gave; with k > 0 successful calls it returns
\* exactly k images, in the order of the calls that produced them, and with
\* k = 0 it raises.
C22_AtLeastOneAsset ==
    /\ unit_pc = "image_loop" =>
         /\ unit_result.calls = unit_result.i
         /\ unit_result.images = SuccessfulCalls(unit_args.outcomes, unit_result.calls)
    /\ (unit_pc \in {"image_returned", "image_raised"} /\ unit_args.mkdir_ok) =>
         LET expected == SuccessfulCalls(unit_args.outcomes, unit_args.number_of_images)
         IN /\ unit_result.calls = unit_args.number_of_images
            /\ unit_result.images = expected
            /\ Len(unit_result.images) <= unit_args.number_of_images
            /\ (unit_pc = "image_returned") = (Len(expected) > 0)
            /\ (unit_pc = "image_raised") = (unit_result.raised = "RuntimeError")

\* three calls, the middle one failed, two images returned
C22_Witness ==
    /\ unit_pc = "image_returned"
    /\ unit_args.number_of_images = 3
    /\ unit_args.outcomes[2] = "http_error"
    /\ unit_result.calls = 3
    /\ unit_result.images = <<0, 2>>

\* the ids of the well-formed entries of a history array
WellFormedIds(content) ==
    {content.entries[k].article_id :
        k \in {j \in 1..Len(content.entries) :
                 content.entries[j].type = "object" /\ content.entries[j].has_id}}

\* C28: whatever the history file holds, reading it for deduplication gives
\* the empty id set or the ids of the well-formed entries and does not
\* raise, and appending to it after a Published outcome does not raise and
\* leaves an array that ends with the new entry.
C28_MalformedHistoryNeverFatal ==
    /\ unit_pc \notin {"history_load_raised", "history_save_raised"}
    /\ unit_pc \in {"history_loaded", "history_saved"} =>
         unit_result.ids = WellFormedIds(unit_args.content)
    /\ unit_pc = "history_saved" =>
         /\ unit_result.written.kind = "array"
         /\ unit_result.written.entries[Len(unit_result.written.entries)] = NewEntry

\* C31: every append keeps the entries that were in the file before it, in
\* their order, and adds exactly one entry at the end, so the recorded ids
\* never shrink, whatever the file held when the append began.
C31_AppendOnly ==
    [][/\ (unit_result'.appends = unit_result.appends + 1 /\ unit_result'.raised = "") =>
            /\ IsPrefix(unit_result.written.entries, unit_result'.written.entries)
            /\ Len(unit_result'.written.entries) = Len(unit_result.written.entries) + 1
       /\ WellFormedIds(unit_result.written) \subseteq WellFormedIds(unit_result'.written)]_vars

\* C35: an entry appended for item x is recognised by the next read: the id
\* set the next collection pass loads contains x.
C35_HistoryRoundTrip ==
    (unit_pc = "store_read" /\ unit_result.last_appended # "") =>
        /\ unit_result.raised = ""
        /\ unit_result.last_appended \in unit_result.ids

\* a3 was appended to a file that held a1, and the read finds both
C35_Witness ==
    /\ unit_pc = "store_read"
    /\ unit_result.last_appended = "a3"
    /\ unit_args.content.kind = "array"
    /\ unit_result.ids = {"a1", "a3"}

\* C32: a run writes the history at most once and only at its end: an entry
\* of the run is there only once the publish outcome is Published and all
\* artifacts are persisted, and a run whose artifact persistence raised has
\* written none.
C32_HistoryWrittenOnceAtEnd ==
    pc # "idle" =>
        /\ Cardinality(EntriesOfThisRun) <= 1
        /\ EntriesOfThisRun # {} =>
             /\ pc = "returned"
             /\ publish_result.status = PUBLISHED
             /\ out_dir = ArtifactFiles /\ out_status = PUBLISHED
        /\ raised_in = "save_run_output" => EntriesOfThisRun = {}
        /\ pc = "save_history" => (out_dir = ArtifactFiles /\ EntriesOfThisRun = {})

\* the outcome was Published, persisting the artifacts raised, no entry
C32_Witness ==
    /\ pc = "raised" /\ raised_in = "save_run_output"
    /\ publish_result.status = PUBLISHED
    /\ Len(out_dir) < Len(ArtifactFiles)
    /\ EntriesOfThisRun = {}
    /\ published # <<>>

C34_CandidatesNeverEmpty ==
    LET today == (now \div DayMinutes) * DayMinutes
    IN /\ sched_pc \in {"compute", "sleep"} =>
            /\ Candidates(schedule_times, today, now) # <<>>
            /\ \A i \in 1..Len(schedule_times) :
                 today + DayMinutes + schedule_times[i] > now
       /\ sched_pc = "sleep" =>
            /\ base > now
            /\ base \in Range(Candidates(schedule_times, today, now))
            /\ (base % DayMinutes) \in Range(schedule_times)

\* every time of today is over: the base is tomorrow's first time
C34_Witness ==
    /\ sched_pc = "sleep"
    /\ \A i \in 1..Len(schedule_times) : schedule_times[i] <= now % DayMinutes
    /\ Len(schedule_times) = 2
    /\ base = (now \div DayMinutes) * DayMinutes + DayMinutes + schedule_times[1]

\* C36: check_login is true only when the status text the target returned
\* says that the account is logged in; a text saying it is not logged in,
\* and an empty or missing content list, give false.
C36_LoginOnlyWhenLoggedIn ==
    /\ login_result = "true" =>
         (status_report.seen /\ status_report.text \in LoggedInTexts)
    /\ (login_result # "none" /\ ~status_report.seen) => login_result = "false"

\* C38: the publish stage is in dry-run mode exactly when the run option or
\* the publish.dry_run flag of the configuration is set: the option can
\* force dry-run on, it cannot turn off a dry-run the configuration asks for.
C38_DryRunIsOptionOrConfig ==
    /\ (publish_result.status = DRY_RUN) = (dry_run \/ cfg_dry_run)
    /\ (cfg_dry_run /\ ~dry_run) => (tool_name = "" /\ session_id = "")
    /\ (~cfg_dry_run /\ ~dry_run /\ pc \in {"save_output", "save_history", "returned"}) =>
         publish_result.status \in {PUBLISHED, FAILED}

\* the configuration asks for dry-run, the run option is off: DryRun
C38_Witness ==
    /\ pc = "save_output"
    /\ cfg_dry_run /\ ~dry_run
    /\ publish_result.status = DRY_RUN
    /\ requests = <<>>

\* C39: the run_id of a run is made before its first stage and stays the
\* key of all it leaves behind: the artifact directory is named by it, the
\* result returned carries it, and the history entry the run appends
\* records it.
C39_RunIdCorrelates ==
    /\ pc # "idle" => run_id >= 1
    /\ output_dir # 0 => output_dir = run_id
    /\ result_run_id # 0 => result_run_id = run_id
    /\ pc \in {"save_history", "returned"} =>
         (output_dir = run_id /\ result_run_id = run_id)
    /\ (pc = "returned" /\ publish_result.status = PUBLISHED) =>
         /\ history_file.entries # <<>>
         /\ history_file.entries[Len(history_file.entries)].run_id = result_run_id
         /\ history_file.entries[Len(history_file.entries)].run_id = output_dir

\* the second run has returned: directory, result and entry carry its run_id
C39_Witness ==
    /\ pc = "returned" /\ publish_result.status = PUBLISHED
    /\ run_id = 2
    /\ output_dir = 2 /\ result_run_id = 2
    /\ Len(history_file.entries) = 2
    /\ history_file.entries[1].run_id = 1 /\ history_file.entries[2].run_id = 2

\* C37: a scheduler started in dry-run mode never changes the history file
\* and never sends a request to the publish target: every run it starts
\* ends with the outcome DryRun or raises, over all its ticks.
C37_DryRunSchedulerIsInert ==
    (unit_pc = "scheduler" /\ unit_args.dry_run) =>
        /\ history_file = unit_result.history_at_start
        /\ requests = <<>> /\ call_no = 0 /\ copied = 0
        /\ published = <<>>
        /\ pc \in {"save_output", "returned"} => publish_result.status = DRY_RUN
        /\ pc # "save_history"
        /\ run_count <= sched_run_count

\* the second run of a dry-run scheduler has returned DryRun
C37_Witness ==
    /\ unit_pc = "scheduler" /\ unit_args.dry_run
    /\ sched_run_count = 2 /\ run_count = 2
    /\ last_outcome = "returned"
    /\ pc = "returned" /\ publish_result.status = DRY_RUN
    /\ ~cfg_dry_run
    /\ history_file = unit_result.history_at_start

=============================================================================
